---- MODULE Spec2Model ----
(***************************************************************************)
(* Vesper outliner (src/src/vesper/screens/outliner.py): the outline tree  *)
(* of OutlinerView, its structural operations, its JSON persistence and    *)
(* the grid (board) projection, as a state machine.                        *)
(*                                                                         *)
(* A TreeNode of the widget is a record [label, data, children]: data is   *)
(* the OutlineItem the node carries (its scalar fields), children the      *)
(* widget's child nodes.  The OutlineItem.children list of a node's data   *)
(* is never read from a live node (clone, save and flatten all walk        *)
(* node.children), so data holds the scalar fields only.  A free-standing  *)
(* OutlineItem (a clone, a hydrated record) is a record with the scalar    *)
(* fields and children.  The tree variable is root.children; a node is     *)
(* addressed by its path, the sequence of child indices from the root;     *)
(* the empty path is the root, which carries no data.                      *)
(* Expand/collapse state and focus are display-only and are left out.      *)
(***************************************************************************)
EXTENDS Integers, Sequences, FiniteSets, TLC

\* Most mutating operations (add, rename, edit, delete, move) of a run; once
\* they are done the outliner's keys are not pressed any more.
MaxOps == 2

\* An absent or empty id ("" in the source, falsy in `data.get("id") or ...`).
NoId == 0

\* _kind_for_level's None.
NoKind == ""

VARIABLES
    mounted,     \* on_mount has run
    tree,        \* self._tree.root.children, a sequence of TreeNodes
    sel,         \* self._tree.cursor_node as a path; << >> is None
    gridIndex,   \* self._grid_index: row index -> item id
    gridRows,    \* the DataTable's rows: <<plot, subplot, character, theme>>
    gridCursor,  \* the DataTable's cursor row (0-based)
    disk,        \* outline.json: [state: "missing" | "corrupt" | "ok", payload]
    notice,      \* text of the notification the last handler raised, "" if none
    pending,     \* the modal prompt a worker awaits, [op |-> "none"] if none
    last,        \* the last outline handler that ran and how it ended
    ops,         \* mutating operations started so far
    sections,    \* the DocumentSection objects: level, parent, children
    task,        \* a Task: its tags and its modified_at
    calls,       \* calls made so far on the sections or on the task
    editor,      \* the EditorView: text, current_path, dirty, _last_edit_ts
    files,       \* the files the editor opens and saves: path -> text
    posted,      \* a TextArea.Changed message of an assignment awaits handling
    unsaved,     \* history: the user edited since the last new, load, clean save
    clock,       \* time.time(), in seconds
    autosave,    \* the app's autosave state: flag, workers, what the last did
    git          \* a call of commit_project_changes and the repository it sees

\* The state of the outliner view.
OutlinerVars == <<mounted, tree, sel, gridIndex, gridRows, gridCursor, disk,
                  notice, pending, last, ops>>

\* The state of the models of vesper.models.
ModelVars == <<sections, task, calls>>

\* The state of the editor, of the app's autosave and of the git service.
AppVars == <<editor, files, posted, unsaved, clock, autosave, git>>

vars == <<mounted, tree, sel, gridIndex, gridRows, gridCursor, disk, notice,
          pending, last, ops, sections, task, calls, editor, files, posted,
          unsaved, clock, autosave, git>>

-----------------------------------------------------------------------------
(* Sequences and paths *)

\* The list comprehension [F(x) for x in s].
Map(F(_), s) == << >> \o [i \in 1..Len(s) |-> F(s[i])]

\* Removal that takes the following siblings along.
RemoveAt_onwards(s, i) == SubSeq(s, 1, i - 1)

RemoveAt(s, i) == SubSeq(s, 1, i - 1) \o SubSeq(s, i + 1, Len(s))

\* list.insert(0, x) put at the end of the list instead.
InsertFirst_last(s, x) == s \o <<x>>

InsertFirst(s, x) == <<x>> \o s

\* A swap of s[j] with the first element, whatever i is.
Swap_first(s, i, j) == [s EXCEPT ![1] = s[j], ![j] = s[1]]

Swap(s, i, j) == [s EXCEPT ![i] = s[j], ![j] = s[i]]

ParentPath(p) == SubSeq(p, 1, Len(p) - 1)

IndexOf(p) == p[Len(p)]

\* The children of the node at path p of forest f (p = << >>: the root's).
RECURSIVE ChildrenAt(_, _)
ChildrenAt(f, p) ==
    IF p = << >> THEN f ELSE ChildrenAt(f[Head(p)].children, Tail(p))

NodeAt(f, p) == ChildrenAt(f, ParentPath(p))[IndexOf(p)]

\* Forest f with the children of the node at path p replaced by c.
RECURSIVE SetChildren(_, _, _)
SetChildren(f, p, c) ==
    IF p = << >> THEN c
    ELSE [f EXCEPT ![Head(p)].children = SetChildren(@, Tail(p), c)]

\* Forest f with the node at path p replaced by n.
SetNode(f, p, n) ==
    SetChildren(f, ParentPath(p),
                [ChildrenAt(f, ParentPath(p)) EXCEPT ![IndexOf(p)] = n])

\* Every path of a node of forest f, and the same in pre-order.
RECURSIVE PreorderPaths(_)
PreorderPaths(f) ==
    IF f = << >> THEN << >>
    ELSE LET n == Len(f)
             sub == PreorderPaths(f[n].children)
         IN  PreorderPaths(SubSeq(f, 1, n - 1))
               \o <<(<<n>>)>>
               \o LET Under(p) == <<n>> \o p IN Map(Under, sub)

PathsOf(f) ==
    LET pp == PreorderPaths(f) IN {pp[k] : k \in 1..Len(pp)}

TreeSize(f) == Len(PreorderPaths(f))

IdsOf(f) == {NodeAt(f, p).data.id : p \in PathsOf(f)}

-----------------------------------------------------------------------------
(* OutlineItem and the tree helpers of OutlinerView *)

\* OutlineItem(...): the dataclass constructor.
OutlineItem(id, title, kind, plot, subplot, character, theme, children) ==
    [id |-> id, title |-> title, kind |-> kind, plot |-> plot,
     subplot |-> subplot, character |-> character, theme |-> theme,
     children |-> children]

\* The scalar fields of an item, as a live node carries them.
DataOf(item) ==
    [id |-> item.id, title |-> item.title, kind |-> item.kind,
     plot |-> item.plot, subplot |-> item.subplot,
     character |-> item.character, theme |-> item.theme]

\* _node_label: the kind's prefix and the title.
node_label(item) ==
    LET prefix == CASE item.kind = "beat" -> "beat-icon "
                    [] item.kind = "chapter" -> "chapter-icon "
                    [] item.kind = "milestone" -> "bullet "
                    [] OTHER -> ""
    IN  <<prefix, item.title>>

\* _kind_for_level
kind_for_level(level) ==
    CASE level = 1 -> "beat"
      [] level = 2 -> "chapter"
      [] level = 3 -> "milestone"
      [] OTHER -> NoKind

\* _level_of counting from the first ancestor instead of the node itself.
level_of_short(p) == Len(p) - 1

\* _level_of: the number of ancestors of the node, the root included.
level_of(p) == Len(p)

\* _attach_subtree without the loop over item.children.
attach_subtree_leaf(item) ==
    [label |-> node_label(item), data |-> DataOf(item), children |-> << >>]

\* _attach_subtree: the TreeNode added for item, with a node per descendant.
RECURSIVE attach_subtree(_)
attach_subtree(item) ==
    [label |-> node_label(item),
     data |-> DataOf(item),
     children |-> Map(attach_subtree, item.children)]

\* _clone_subtree without the walk over node.children.
clone_subtree_shallow(node) ==
    OutlineItem(node.data.id, node.data.title, node.data.kind, node.data.plot,
                node.data.subplot, node.data.character, node.data.theme,
                << >>)

\* _clone_subtree: a fresh OutlineItem per node, every field copied.
RECURSIVE clone_subtree(_)
clone_subtree(node) ==
    OutlineItem(node.data.id, node.data.title, node.data.kind, node.data.plot,
                node.data.subplot, node.data.character, node.data.theme,
                Map(clone_subtree, node.children))

\* _add_item: parent.add(label, data=item), a leaf.
add_item(children, item) ==
    Append(children,
           [label |-> node_label(item), data |-> DataOf(item),
            children |-> << >>])

\* _rebuild_children: remove every child, attach the items in order.
rebuild_children(items) == Map(attach_subtree, items)

\* _next_sibling wrapping round to the first sibling after the last.
next_sibling_wrap(f, p) ==
    IF p = << >> THEN << >>
    ELSE IF IndexOf(p) + 1 <= Len(ChildrenAt(f, ParentPath(p)))
         THEN ParentPath(p) \o <<IndexOf(p) + 1>>
         ELSE ParentPath(p) \o <<1>>

\* _previous_sibling returning sibs[0] for every node but the first.
previous_sibling_first(p) ==
    IF p = << >> THEN << >>
    ELSE IF IndexOf(p) > 1 THEN ParentPath(p) \o <<1>> ELSE << >>

\* _previous_sibling / _next_sibling, as paths; << >> is None.
previous_sibling(p) ==
    IF p = << >> THEN << >>
    ELSE IF IndexOf(p) > 1 THEN ParentPath(p) \o <<IndexOf(p) - 1>> ELSE << >>

next_sibling(f, p) ==
    IF p = << >> THEN << >>
    ELSE IF IndexOf(p) + 1 <= Len(ChildrenAt(f, ParentPath(p)))
         THEN ParentPath(p) \o <<IndexOf(p) + 1>> ELSE << >>

\* _flatten without the walk below the top-level nodes.
flatten_top_level(f) ==
    LET DataOfNode(node) == node.data
    IN  Map(DataOfNode, f)

\* _flatten: the data of every non-root node, pre-order.
flatten(f) ==
    LET DataAt(p) == NodeAt(f, p).data
    IN  Map(DataAt, PreorderPaths(f))

-----------------------------------------------------------------------------
(* Texts.  A text is a string; the string functions of the source are      *)
(* given by their value on the texts the prompts can return.               *)

\* str.strip on the raw texts typed into a prompt.
Strip(text) ==
    CASE text = " " -> ""
      [] text = " Ch1 " -> "Ch1"
      [] OTHER -> text

\* text.replace("\n", " ").strip() on the texts a milestone field can hold.
OneLine(text) ==
    CASE text = "two\nlines" -> "two lines"
      [] OTHER -> Strip(text)

\* len() of a one-line text.
TextLen(text) ==
    CASE text = "" -> 0
      [] text = "p" -> 1
      [] text = "two lines" -> 9
      [] OTHER -> 3

\* GRID_COL_WIDTHS: every column previews 36 characters.
GRID_COL_WIDTHS == 36

\* A JSON number other than 0 held where the file format has a string.
JsonNumber == "<number>"

\* _preview on a value that is not a string: `not text` is false for a
\* number other than 0 and text.replace raises AttributeError.
preview_raises(text) == text = JsonNumber

\* _preview: one line, cut to max_chars with an ellipsis.
preview(text, max_chars) ==
    IF text = "" THEN ""
    ELSE LET t == OneLine(text)
         IN  IF TextLen(t) <= max_chars THEN t ELSE "cut..."

-----------------------------------------------------------------------------
(* Persistence: outline.json holds a JSON array of objects.  A JSON object *)
(* is a function from its keys to their values.                            *)

\* asdict with the kind field left out of every object.
RECURSIVE asdict_without_kind(_)
asdict_without_kind(item) ==
    [id |-> item.id, title |-> item.title,
     children |-> Map(asdict_without_kind, item.children),
     plot |-> item.plot, subplot |-> item.subplot,
     character |-> item.character, theme |-> item.theme]

\* dataclasses.asdict(item), recursively, as json.dumps writes it.
RECURSIVE asdict(_)
asdict(item) ==
    [id |-> item.id, title |-> item.title, kind |-> item.kind,
     children |-> Map(asdict, item.children),
     plot |-> item.plot, subplot |-> item.subplot,
     character |-> item.character, theme |-> item.theme]

\* _save_outline's node_to_item: an OutlineItem per node, every field copied.
RECURSIVE node_to_item(_)
node_to_item(node) ==
    OutlineItem(node.data.id, node.data.title, node.data.kind, node.data.plot,
                node.data.subplot, node.data.character, node.data.theme,
                Map(node_to_item, node.children))

\* _save_outline: the file written for tree f.
save_outline(f) ==
    [state |-> "ok",
     payload |-> Map(asdict, Map(node_to_item, f))]

\* dict.get(key, default)
Get(obj, key, default) ==
    IF key \in DOMAIN obj THEN obj[key] ELSE default

\* The number of objects in a JSON object's subtree.
RECURSIVE ObjSize(_)
ObjSize(obj) ==
    LET ch == Get(obj, "children", << >>)
        RECURSIVE Sum(_)
        Sum(k) == IF k = 0 THEN 0 ELSE Sum(k - 1) + ObjSize(ch[k])
    IN  1 + Sum(Len(ch))

\* The ids written in a JSON array of objects.
RECURSIVE ObjIds(_)
ObjIds(objs) ==
    UNION {{Get(objs[i], "id", NoId)} \cup ObjIds(Get(objs[i], "children", << >>))
             : i \in DOMAIN objs} \ {NoId}

\* str(uuid.uuid4()), n times: ids that no live object carries (used are the
\* ids live objects carry); the least such ids stand for them.
RECURSIVE NewIds(_, _)
NewIds(used, n) ==
    IF n = 0 THEN << >>
    ELSE LET i == CHOOSE i \in 1..(Cardinality(used) + 1) :
                      i \notin used /\ \A j \in 1..(i - 1) : j \in used
         IN  <<i>> \o NewIds(used \cup {i}, n - 1)

\* _hydrate: the OutlineItem of a JSON object.  n is the object's place in
\* the file (pre-order): an object with no id gets the n-th id that no
\* live object carries, so every uuid is handed out once.
RECURSIVE hydrate(_, _, _)
hydrate(data, used, n) ==
    LET ch == Get(data, "children", << >>)
        RECURSIVE Offset(_)
        Offset(k) == IF k = 1 THEN 1 ELSE Offset(k - 1) + ObjSize(ch[k - 1])
    IN  OutlineItem(
            IF Get(data, "id", NoId) # NoId THEN Get(data, "id", NoId)
            ELSE NewIds(used, n)[n],
            Get(data, "title", "Untitled"),
            Get(data, "kind", "beat"),
            Get(data, "plot", ""),
            Get(data, "subplot", ""),
            Get(data, "character", ""),
            Get(data, "theme", ""),
            << >> \o [k \in 1..Len(ch) |->
                         hydrate(ch[k], used, n + Offset(k))])

\* A JSON value that is not an object (a string, a number, null): it has no
\* .get, so _hydrate raises AttributeError on it.
NotADict == [notadict |-> TRUE]

\* _hydrate raises on data: data is not an object, or the recursion into
\* its "children" raises.
RECURSIVE hydrate_raises(_)
hydrate_raises(data) ==
    \/ "notadict" \in DOMAIN data
    \/ LET ch == Get(data, "children", << >>)
       IN  \E k \in 1..Len(ch) : hydrate_raises(ch[k])

\* path.exists() and json.loads succeeds: the file is there and holds JSON,
\* whether or not it can be written.
Parses(d) == d.state \in {"ok", "ok_readonly"}

\* path.parent.mkdir or path.write_text raises OSError: the directory or the
\* file cannot be written (permissions, disk full).
write_raises(d) == d.state \in {"ok_readonly", "missing_readonly"}

\* _load_outline: [found |-> FALSE] is None, returned when the file does not
\* exist ("missing"), when json.loads raises ("corrupt") and when _hydrate
\* raises on a record.
load_outline(d) ==
    IF ~Parses(d) THEN [found |-> FALSE, items |-> << >>]
    ELSE IF \E k \in 1..Len(d.payload) : hydrate_raises(d.payload[k])
    THEN [found |-> FALSE, items |-> << >>]
    ELSE LET top == [id |-> 1, children |-> d.payload]
         IN  [found |-> TRUE,
              items |-> hydrate(top, ObjIds(d.payload), 0).children]

\* _seed_bme
seed_bme(used) ==
    LET u == NewIds(used, 3)
    IN  << OutlineItem(u[1], "Beginning", "beat", "", "", "", "", << >>),
           OutlineItem(u[2], "Middle", "beat", "", "", "", "", << >>),
           OutlineItem(u[3], "End", "beat", "", "", "", "", << >>) >>

\* _populate_tree: every old child removed, the items attached in order.
populate_tree(items) == Map(attach_subtree, items)

-----------------------------------------------------------------------------
(* Selection and grid *)

\* _reselect_by_id that selects nothing.
reselect_by_id_skipped(f, node_id, cur) == cur

\* _reselect_by_id: the first node (pre-order) carrying node_id becomes the
\* cursor node; with no such node the cursor stays at cur.
reselect_by_id(f, node_id, cur) ==
    LET pp == PreorderPaths(f)
        hits == {k \in 1..Len(pp) : NodeAt(f, pp[k]).data.id = node_id}
    IN  IF hits = {} THEN cur
        ELSE pp[CHOOSE k \in hits : \A j \in hits : k <= j]

\* _grid_select_by_id: list.index(node_id), 0-based; the cursor stays at cur
\* on ValueError.
grid_select_by_id(index, node_id, cur) ==
    LET hits == {k \in 1..Len(index) : index[k] = node_id}
    IN  IF hits = {} THEN cur
        ELSE (CHOOSE k \in hits : \A j \in hits : k <= j) - 1

\* The row _rebuild_grid adds for an item.
grid_row(item) ==
    IF item.kind = "milestone"
    THEN << preview(item.plot, GRID_COL_WIDTHS),
            preview(item.subplot, GRID_COL_WIDTHS),
            preview(item.character, GRID_COL_WIDTHS),
            preview(item.theme, GRID_COL_WIDTHS) >>
    ELSE <<"", "", "", "">>

\* _rebuild_grid on tree f, its loop: rows cleared (the cursor goes to row
\* 0), a row and an index entry per flattened item.
rebuild_grid_rows(f) ==
    LET items == flatten(f)
        IdOf(item) == item.id
    IN  /\ gridIndex' = Map(IdOf, items)
        /\ gridRows' = Map(grid_row, items)

\* The row of an item cannot be built: _preview raises on one of its fields.
grid_row_raises(item) ==
    /\ item.kind = "milestone"
    /\ \/ preview_raises(item.plot)
       \/ preview_raises(item.subplot)
       \/ preview_raises(item.character)
       \/ preview_raises(item.theme)

\* _rebuild_grid raises on tree f.
rebuild_grid_raises(f) ==
    LET items == flatten(f)
    IN  \E k \in 1..Len(items) : grid_row_raises(items[k])

\* _rebuild_grid on tree f when its loop raises: the rows were cleared, the
\* items before the raising one have their row and index entry, the raising
\* one its index entry only, and the cursor is not placed.
rebuild_grid_interrupted(f) ==
    LET items == flatten(f)
        IdOf(item) == item.id
        k0 == CHOOSE k \in 1..Len(items) :
                  /\ grid_row_raises(items[k])
                  /\ \A j \in 1..(k - 1) : ~grid_row_raises(items[j])
    IN  /\ gridIndex' = Map(IdOf, SubSeq(items, 1, k0))
        /\ gridRows' = Map(grid_row, SubSeq(items, 1, k0 - 1))
        /\ gridCursor' = 0

\* _rebuild_grid, its end: the grid cursor put on the row of the cursor
\* node c.
rebuild_grid_cursor(f, c) ==
    gridCursor' = IF c # << >>
                  THEN grid_select_by_id(gridIndex', NodeAt(f, c).data.id, 0)
                  ELSE 0

\* _rebuild_grid on tree f with cursor node c.
rebuild_grid(f, c) ==
    /\ rebuild_grid_rows(f)
    /\ rebuild_grid_cursor(f, c)

\* The cursor node after the widget removed or replaced nodes: the toolkit
\* leaves it at no node or at some node of the tree.
CursorChoices(f) == {<< >>} \cup PathsOf(f)

-----------------------------------------------------------------------------
(* Inputs of the prompts *)

\* Raw texts typed into a PathPrompt when a new item is added.
AddTexts == {"", " ", " Ch1 "}

\* Raw texts typed into a PathPrompt on rename.
RenameTexts == {" ", "Renamed"}

\* What MilestonePrompt._collect returns for a new milestone.
NewMilestoneFields ==
    { [title |-> "M1", plot |-> "p", subplot |-> "", character |-> "",
       theme |-> ""],
      [title |-> "", plot |-> "p", subplot |-> "", character |-> "",
       theme |-> ""] }

\* What MilestonePrompt._collect returns when a milestone is edited.
EditMilestoneFields ==
    { [title |-> "", plot |-> "two\nlines", subplot |-> "",
       character |-> "", theme |-> "t"] }

\* PathPrompt: OK or Enter dismisses with the stripped text or None, Cancel
\* and Escape with None; _ask strips once more.  None is "".
PathPromptResult(ok, text) == IF ok THEN Strip(text) ELSE ""

ask(ok, text) ==
    LET val == PathPromptResult(ok, text)
    IN  IF val # "" THEN Strip(val) ELSE ""

NoPrompt == [op |-> "none"]

\* DocumentSection(title) and Document.__post_init__: section 1 is the root
\* section of a Document (level 0), the others are built with the default
\* level 1; no section has a parent (NoId is None) or children.
Sections == {1, 2, 3}

DocumentSection(level) == [level |-> level, parent |-> NoId, children |-> << >>]

\* completed_at of a task that was never completed: None.
NoTime == -1

\* Task(title): status TODO, no tags, completed_at None; modified_at counts
\* the readings of datetime.now() stored in it after the one of the
\* constructor, and completed_at holds such a reading.
Task == [tags |-> << >>, modified_at |-> 0, status |-> "todo",
         completed_at |-> NoTime]

\* No path: current_path None, or a prompt that was cancelled.
NoPath == ""

\* A path with no file behind it.
NoFile == "<no file>"

Paths == {"a.md", "b.md"}

\* The text the TextArea is composed with, and what the user makes of it.
Texts == {"", "# Welcome", "draft"}

\* The clock: time.time() is read in whole seconds, TimeStep apart, from
\* FirstTime (the time is positive) to MaxTime.
TimeStep == 5

FirstTime == 5

MaxTime == 30

\* EditorView as composed: the class attributes and the TextArea's text.
EditorView == [text |-> "# Welcome", current_path |-> NoPath, dirty |-> FALSE,
               last_edit_ts |-> 0]

\* The editor and the app after VesperApp.on_mount: no file, the clock at
\* FirstTime, the interval timer runs, no autosave is in flight; wrote and
\* raised tell what the last autosave worker did.
EditorIdle ==
    /\ editor = EditorView
    /\ files = [p \in Paths |-> NoFile]
    /\ posted = FALSE
    /\ unsaved = FALSE
    /\ clock = FirstTime
    /\ autosave = [running |-> TRUE, inflight |-> FALSE, workers |-> 0,
                   wrote |-> FALSE, raised |-> FALSE]

\* And no call of commit_project_changes was made.
AppIdle == EditorIdle /\ git = [pc |-> "idle"]

ModelsInit ==
    /\ sections = [n \in Sections |-> DocumentSection(IF n = 1 THEN 0 ELSE 1)]
    /\ task = Task
    /\ calls = 0

\* outline.json when the view is constructed: absent (a new project), or as
\* an earlier run saved it after chapter Ch1 was added to Beginning and
\* milestone M1 (plot "p") to Ch1.
InitialFiles ==
    { [state |-> "missing", payload |-> << >>],
      save_outline(populate_tree(
        << OutlineItem(1, "Beginning", "beat", "", "", "", "",
             << OutlineItem(4, "Ch1", "chapter", "", "", "", "",
                  << OutlineItem(5, "M1", "milestone", "p", "", "", "",
                                 << >>) >>) >>),
           OutlineItem(2, "Middle", "beat", "", "", "", "", << >>),
           OutlineItem(3, "End", "beat", "", "", "", "", << >>) >>)) }

Outcome(op, outcome) == [op |-> op, outcome |-> outcome]

-----------------------------------------------------------------------------
(* Lifecycle *)

Init ==
    /\ mounted = FALSE
    /\ tree = << >>
    /\ sel = << >>
    /\ gridIndex = << >>
    /\ gridRows = << >>
    /\ gridCursor = 0
    /\ disk \in InitialFiles
    /\ notice = ""
    /\ pending = NoPrompt
    /\ last = Outcome("init", "done")
    /\ ops = 0
    /\ ModelsInit /\ AppIdle

\* on_mount and reload_outline_from_disk with d the file at _outline_path():
\* items = _load_outline() or _seed_bme(); _populate_tree(items);
\* _rebuild_grid().
LoadAndShow(op, d) ==
    LET loaded == load_outline(d)
        shown == populate_tree(IF loaded.found /\ loaded.items # << >>
                               THEN loaded.items
                               ELSE seed_bme({}))
    IN  /\ tree' = shown
        /\ IF rebuild_grid_raises(tree')
           THEN \* the exception leaves the handler: the session ends
                /\ rebuild_grid_interrupted(tree')
                /\ sel' \in CursorChoices(tree')
                /\ mounted' = FALSE
                /\ last' = Outcome(op, "raised")
                /\ UNCHANGED <<ModelVars, AppVars>>
           ELSE /\ rebuild_grid_rows(tree')
                /\ \E c \in CursorChoices(tree') :
                      /\ sel' = c
                      /\ rebuild_grid_cursor(tree', c)
                /\ mounted' = TRUE
                /\ last' = Outcome(op, "done")
                /\ UNCHANGED <<ModelVars, AppVars>>
        /\ notice' = ""
        /\ UNCHANGED <<pending, ops>>

on_mount ==
    /\ ~mounted
    /\ LoadAndShow("mount", disk)
    /\ UNCHANGED disk

reload_outline_from_disk ==
    /\ mounted
    /\ pending = NoPrompt
    /\ LoadAndShow("reload", disk)
    /\ UNCHANGED disk

\* A handler that returns before it touched anything.
Return(op, outcome, text) ==
    /\ notice' = text
    /\ last' = Outcome(op, outcome)
    /\ UNCHANGED <<ModelVars, AppVars>>
    /\ UNCHANGED <<mounted, tree, sel, gridIndex, gridRows, gridCursor, disk,
                   pending, ops>>

\* _save_outline() raises in a handler: nothing catches the OSError, so
\* _rebuild_grid() is not reached, nothing is notified, and the exception
\* leaves the handler, which ends the session.
SaveRaised(op) ==
    /\ UNCHANGED <<disk, gridIndex, gridRows, gridCursor>>
    /\ notice' = ""
    /\ last' = Outcome(op, "raised")
    /\ UNCHANGED <<ModelVars, AppVars>>
    /\ ops' = ops + 1
    /\ mounted' = FALSE

\* The tail of a mutating handler that left cursor node c:
\* _save_outline(), _rebuild_grid(), both on the new tree.
SaveAndRebuild(op, c) ==
    /\ sel' = c
    /\ IF write_raises(disk)
       THEN SaveRaised(op)
       ELSE /\ disk' = save_outline(tree')
            /\ rebuild_grid(tree', sel')
            /\ notice' = ""
            /\ last' = Outcome(op, "done")
            /\ UNCHANGED <<ModelVars, AppVars>>
            /\ ops' = ops + 1
            /\ UNCHANGED mounted
    /\ UNCHANGED pending

\* node.remove() that leaves the node attached.
RemoveNode_keep(f, p) == f

\* node.remove()
RemoveNode(f, p) ==
    SetChildren(f, ParentPath(p),
                RemoveAt(ChildrenAt(f, ParentPath(p)), IndexOf(p)))

\* The same tail when nothing reselects a node: the cursor node is whatever
\* the toolkit left.
SaveAndRebuildAny(op) ==
    /\ IF write_raises(disk)
       THEN /\ sel' \in CursorChoices(tree')
            /\ SaveRaised(op)
       ELSE /\ disk' = save_outline(tree')
            /\ rebuild_grid_rows(tree')
            /\ \E c \in CursorChoices(tree') :
                  /\ sel' = c
                  /\ rebuild_grid_cursor(tree', c)
            /\ notice' = ""
            /\ last' = Outcome(op, "done")
            /\ UNCHANGED <<ModelVars, AppVars>>
            /\ ops' = ops + 1
            /\ UNCHANGED mounted
    /\ UNCHANGED pending

\* A structural edit of the tree into f that reselects node_id: the cursor
\* node is the reselected node, else whatever the toolkit left.
Reselected(op, f, node_id) ==
    /\ tree' = f
    /\ LET found == reselect_by_id(tree', node_id, << >>)
       IN  IF found # << >>
           THEN SaveAndRebuild(op, found)
           ELSE SaveAndRebuildAny(op)

\* A structural edit of the tree into f that reselects nothing.
NotReselected(op, f) ==
    /\ tree' = f
    /\ SaveAndRebuildAny(op)

-----------------------------------------------------------------------------
(* Actions (keys) *)

action_delete ==
    /\ mounted
    /\ pending = NoPrompt
    /\ ops < MaxOps
    /\ IF sel # << >>
       THEN NotReselected("delete", RemoveNode(tree, sel))
       ELSE Return("delete", "noop", "")

action_indent ==
    /\ mounted
    /\ pending = NoPrompt
    /\ ops < MaxOps
    /\ LET prev == previous_sibling(sel)
       IN  IF sel = << >> \/ prev = << >>
           THEN Return("indent", "noop", "")
           ELSE IF level_of(prev) + 1 > 3
           THEN Return("indent", "rejected", "Max depth is 3")
           ELSE LET cloned == clone_subtree(NodeAt(tree, sel))
                    removed == RemoveNode(tree, sel)
                    attached == SetChildren(removed, prev,
                                    Append(ChildrenAt(removed, prev),
                                           attach_subtree(cloned)))
                IN  Reselected("indent", attached, cloned.id)

action_outdent ==
    /\ mounted
    /\ pending = NoPrompt
    /\ ops < MaxOps
    /\ IF Len(sel) < 2
       THEN Return("outdent", "noop", "")
       ELSE LET grand == ParentPath(ParentPath(sel))
                cloned == clone_subtree(NodeAt(tree, sel))
                removed == RemoveNode(tree, sel)
                attached == SetChildren(removed, grand,
                                Append(ChildrenAt(removed, grand),
                                       attach_subtree(cloned)))
            IN  Reselected("outdent", attached, cloned.id)

\* The tree action_move_up leaves when the node at path p of forest f is
\* selected: f itself when the handler returns early.
move_up_tree(f, p) ==
    LET parent == ParentPath(p)
        sibs == ChildrenAt(f, parent)
        idx == IndexOf(p)
        prev_parent == previous_sibling(parent)
    IN  IF idx > 1
        THEN LET order == Swap(Map(clone_subtree, sibs), idx - 1, idx)
             IN  SetChildren(f, parent, rebuild_children(order))
        ELSE IF parent = << >> \/ prev_parent = << >>
        THEN f
        ELSE LET moving_item == clone_subtree(NodeAt(f, p))
                 removed == RemoveNode(f, p)
                 olds == ChildrenAt(removed, prev_parent)
                 prev_items == Append(Map(clone_subtree, olds), moving_item)
             IN  SetChildren(removed, prev_parent,
                             rebuild_children(prev_items))

action_move_up ==
    /\ mounted
    /\ pending = NoPrompt
    /\ ops < MaxOps
    /\ IF sel = << >>
       THEN Return("move_up", "noop", "")
       ELSE
       LET parent == ParentPath(sel)
           idx == IndexOf(sel)
           item_id == NodeAt(tree, sel).data.id
           prev_parent == previous_sibling(parent)
       IN  IF idx > 1
           THEN IF item_id # NoId
                THEN Reselected("move_up", move_up_tree(tree, sel), item_id)
                ELSE NotReselected("move_up", move_up_tree(tree, sel))
           ELSE IF parent = << >> \/ prev_parent = << >>
           THEN Return("move_up", "noop", "")
           ELSE Reselected("move_up", move_up_tree(tree, sel), item_id)

\* The tree action_move_down leaves when the node at path p of forest f is
\* selected: f itself when the handler returns early.
move_down_tree(f, p) ==
    LET parent == ParentPath(p)
        sibs == ChildrenAt(f, parent)
        idx == IndexOf(p)
        next_parent == next_sibling(f, parent)
    IN  IF idx < Len(sibs)
        THEN LET order == Swap(Map(clone_subtree, sibs), idx, idx + 1)
             IN  SetChildren(f, parent, rebuild_children(order))
        ELSE IF parent = << >> \/ next_parent = << >>
        THEN f
        ELSE LET moving_item == clone_subtree(NodeAt(f, p))
                 removed == RemoveNode(f, p)
                 olds == ChildrenAt(removed, next_parent)
                 next_items == InsertFirst(Map(clone_subtree, olds),
                                           moving_item)
             IN  SetChildren(removed, next_parent,
                             rebuild_children(next_items))

action_move_down ==
    /\ mounted
    /\ pending = NoPrompt
    /\ ops < MaxOps
    /\ IF sel = << >>
       THEN Return("move_down", "noop", "")
       ELSE
       LET parent == ParentPath(sel)
           sibs == ChildrenAt(tree, parent)
           idx == IndexOf(sel)
           item_id == NodeAt(tree, sel).data.id
           next_parent == next_sibling(tree, parent)
       IN  IF idx < Len(sibs)
           THEN IF item_id # NoId
                THEN Reselected("move_down", move_down_tree(tree, sel), item_id)
                ELSE NotReselected("move_down", move_down_tree(tree, sel))
           ELSE IF parent = << >> \/ next_parent = << >>
           THEN Return("move_down", "noop", "")
           ELSE Reselected("move_down", move_down_tree(tree, sel), item_id)

-----------------------------------------------------------------------------
(* Workers (async): a worker runs up to its prompt, and resumes when the   *)
(* modal screen is dismissed.  While the modal screen is up no key of the  *)
(* outliner is handled.                                                    *)

\* The worker reaches its await: the prompt is pushed.
Prompt(op, node, kind) ==
    /\ pending' = [op |-> op, node |-> node, kind |-> kind]
    /\ notice' = ""
    /\ last' = Outcome(op, "prompt")
    /\ UNCHANGED <<ModelVars, AppVars>>
    /\ UNCHANGED <<mounted, tree, sel, gridIndex, gridRows, gridCursor, disk,
                   ops>>

\* A worker that writes the file before it returns after its prompt.
Cancelled_saving(op) ==
    /\ pending' = NoPrompt
    /\ notice' = ""
    /\ last' = Outcome(op, "cancelled")
    /\ UNCHANGED <<ModelVars, AppVars>>
    /\ disk' = save_outline(tree)
    /\ UNCHANGED <<mounted, tree, sel, gridIndex, gridRows, gridCursor, ops>>

\* The worker returns after its prompt without a change.
Cancelled(op) ==
    /\ pending' = NoPrompt
    /\ notice' = ""
    /\ last' = Outcome(op, "cancelled")
    /\ UNCHANGED <<ModelVars, AppVars>>
    /\ UNCHANGED <<mounted, tree, sel, gridIndex, gridRows, gridCursor, disk,
                   ops>>

\* The tail of a worker on the new tree f: _save_outline(), _rebuild_grid().
WorkerDone(op, f) ==
    /\ pending' = NoPrompt
    /\ tree' = f
    /\ IF write_raises(disk)
       THEN SaveRaised(op)
       ELSE /\ disk' = save_outline(tree')
            /\ rebuild_grid(tree', sel)
            /\ notice' = ""
            /\ last' = Outcome(op, "done")
            /\ UNCHANGED <<ModelVars, AppVars>>
            /\ ops' = ops + 1
            /\ UNCHANGED mounted
    /\ UNCHANGED sel

\* Every id a live object carries: the tree's, the file's, the grid's.
UsedIds == IdsOf(tree) \cup ObjIds(disk.payload)
             \cup {gridIndex[k] : k \in DOMAIN gridIndex}

\* OutlineItem.new
OutlineItem_new(title, kind, plot, subplot, character, theme) ==
    OutlineItem(NewIds(UsedIds, 1)[1], title, kind, plot, subplot, character,
                theme, << >>)

add_sibling_worker ==
    /\ mounted
    /\ pending = NoPrompt
    /\ ops < MaxOps
    /\ IF sel = << >>
       THEN Return("add_sibling", "noop", "")
       ELSE LET parent == ParentPath(sel)
                kind == kind_for_level(level_of(parent) + 1)
            IN  IF kind = NoKind
                THEN Return("add_sibling", "noop", "")
                ELSE Prompt("add_sibling", parent, kind)

add_child_worker ==
    /\ mounted
    /\ pending = NoPrompt
    /\ ops < MaxOps
    /\ IF sel = << >>
       THEN Return("add_child", "noop", "")
       ELSE LET level == level_of(sel) + 1
                kind == kind_for_level(level)
            IN  IF level > 3
                THEN Return("add_child", "rejected", "Max depth is 3")
                ELSE IF kind = NoKind
                THEN Return("add_child", "noop", "")
                ELSE Prompt("add_child", sel, kind)

\* Either add worker after its prompt: the new item is added as the last
\* child of the node the worker holds.
add_worker_resume ==
    /\ pending.op \in {"add_sibling", "add_child"}
    /\ LET Added(item) ==
               WorkerDone(pending.op,
                          SetChildren(tree, pending.node,
                                      add_item(ChildrenAt(tree, pending.node),
                                               item)))
       IN  IF pending.kind = "milestone"
           THEN \E ok \in BOOLEAN, data \in NewMilestoneFields :
                   IF ~ok \/ data.title = ""
                   THEN Cancelled(pending.op)
                   ELSE Added(OutlineItem_new(data.title, "milestone",
                                              data.plot, data.subplot,
                                              data.character, data.theme))
           ELSE \E ok \in BOOLEAN, text \in AddTexts :
                   IF ask(ok, text) = ""
                   THEN Cancelled(pending.op)
                   ELSE Added(OutlineItem_new(ask(ok, text), pending.kind,
                                              "", "", "", ""))

rename_worker ==
    /\ mounted
    /\ pending = NoPrompt
    /\ ops < MaxOps
    /\ IF sel = << >>
       THEN Return("rename", "noop", "")
       ELSE Prompt("rename", sel, NoKind)

rename_worker_resume ==
    /\ pending.op = "rename"
    /\ \E ok \in BOOLEAN, text \in RenameTexts :
          LET title == ask(ok, text)
              node == NodeAt(tree, pending.node)
              data == [node.data EXCEPT !.title = title]
          IN  IF title = ""
              THEN Cancelled("rename")
              ELSE WorkerDone("rename",
                              SetNode(tree, pending.node,
                                      [node EXCEPT !.data = data,
                                                   !.label = node_label(data)]))

edit_milestone_worker ==
    /\ mounted
    /\ pending = NoPrompt
    /\ ops < MaxOps
    /\ IF sel = << >>
       THEN Return("edit_milestone", "noop", "")
       ELSE IF NodeAt(tree, sel).data.kind # "milestone"
       THEN Return("edit_milestone", "rejected", "Select a milestone to edit")
       ELSE Prompt("edit_milestone", sel, NoKind)

edit_milestone_worker_resume ==
    /\ pending.op = "edit_milestone"
    /\ \E ok \in BOOLEAN, fields \in EditMilestoneFields :
          LET node == NodeAt(tree, pending.node)
              data == [node.data EXCEPT
                         !.title = IF fields.title # "" THEN fields.title ELSE @,
                         !.plot = fields.plot,
                         !.subplot = fields.subplot,
                         !.character = fields.character,
                         !.theme = fields.theme]
              edited == SetNode(tree, pending.node,
                                [node EXCEPT !.data = data,
                                             !.label = node_label(data)])
          IN  IF ~ok
              THEN Cancelled("edit_milestone")
              ELSE /\ pending' = NoPrompt
                   /\ tree' = edited
                   /\ IF write_raises(disk)
                      THEN /\ SaveRaised("edit_milestone")
                           /\ UNCHANGED sel
                      ELSE /\ disk' = save_outline(tree')
                           /\ rebuild_grid(tree', sel)
                           /\ sel' = reselect_by_id(tree', data.id, sel)
                           /\ notice' = ""
                           /\ last' = Outcome("edit_milestone", "done")
                           /\ UNCHANGED <<ModelVars, AppVars>>
                           /\ ops' = ops + 1
                           /\ UNCHANGED mounted

-----------------------------------------------------------------------------
(* The two-way selection sync *)

\* Tree -> Grid: a node is selected (click or Enter on the tree).
on_tree_node_selected ==
    /\ mounted
    /\ pending = NoPrompt
    /\ \E p \in PathsOf(tree) :
          /\ sel' = p
          /\ gridCursor' = grid_select_by_id(gridIndex, NodeAt(tree, p).data.id,
                                             gridCursor)
    /\ notice' = ""
    /\ last' = Outcome("navigate", "done")
    /\ UNCHANGED <<ModelVars, AppVars>>
    /\ UNCHANGED <<mounted, tree, gridIndex, gridRows, disk, pending, ops>>

\* Grid -> Tree: the grid cursor is put on a row.
on_data_table_row_highlighted ==
    /\ mounted
    /\ pending = NoPrompt
    /\ \E idx \in 0..(Len(gridRows) - 1) :
          /\ gridCursor' = idx
          /\ sel' = IF 0 <= idx /\ idx < Len(gridIndex)
                    THEN reselect_by_id(tree, gridIndex[idx + 1], sel)
                    ELSE sel
    /\ notice' = ""
    /\ last' = Outcome("navigate", "done")
    /\ UNCHANGED <<ModelVars, AppVars>>
    /\ UNCHANGED <<mounted, tree, gridIndex, gridRows, disk, pending, ops>>

-----------------------------------------------------------------------------

Next ==
    \/ on_mount
    \/ reload_outline_from_disk
    \/ action_delete
    \/ action_indent
    \/ action_outdent
    \/ action_move_up
    \/ action_move_down
    \/ add_sibling_worker
    \/ add_child_worker
    \/ add_worker_resume
    \/ rename_worker
    \/ rename_worker_resume
    \/ edit_milestone_worker
    \/ edit_milestone_worker_resume
    \/ on_tree_node_selected
    \/ on_data_table_row_highlighted

Spec == Init /\ [][Next]_vars

-----------------------------------------------------------------------------
(* Writing: the project directory can stop being writable while the        *)
(* outliner is open.                                                        *)

\* The environment: from now on path.write_text raises OSError (the
\* permissions changed, the disk is full).  What the file holds stays.
write_protect ==
    /\ disk.state \in {"ok", "missing"}
    /\ disk' = [disk EXCEPT !.state = IF @ = "ok" THEN "ok_readonly"
                                      ELSE "missing_readonly"]
    /\ UNCHANGED <<mounted, tree, sel, gridIndex, gridRows, gridCursor, notice,
                   pending, last, ops>>
    /\ UNCHANGED <<ModelVars, AppVars>>

NextIO ==
    \/ on_mount
    \/ reload_outline_from_disk
    \/ action_delete
    \/ action_indent
    \/ action_outdent
    \/ action_move_up
    \/ action_move_down
    \/ add_sibling_worker
    \/ add_child_worker
    \/ add_worker_resume
    \/ rename_worker
    \/ rename_worker_resume
    \/ edit_milestone_worker
    \/ edit_milestone_worker_resume
    \/ on_tree_node_selected
    \/ on_data_table_row_highlighted
    \/ write_protect

SpecIO == Init /\ [][NextIO]_vars

-----------------------------------------------------------------------------
(* vesper.models: DocumentSection and Task.  A section is named by its     *)
(* place in Sections; `section in self.children` and list.remove compare   *)
(* with ==, which for sections built at different times (created_at        *)
(* differs) is identity.                                                   *)

\* The view as it is before on_mount, for the specifications of the models.
OutlinerIdle ==
    /\ mounted = FALSE
    /\ tree = << >>
    /\ sel = << >>
    /\ gridIndex = << >>
    /\ gridRows = << >>
    /\ gridCursor = 0
    /\ disk = [state |-> "missing", payload |-> << >>]
    /\ notice = ""
    /\ pending = NoPrompt
    /\ last = Outcome("init", "done")
    /\ ops = 0

\* Calls made on the models in one run.
MaxCalls == 4

\* list.remove(x): the first occurrence of x leaves the list.
ListRemove(list, x) ==
    LET k == CHOOSE k \in 1..Len(list) :
                 list[k] = x /\ \A j \in 1..(k - 1) : list[j] # x
    IN  RemoveAt(list, k)

\* x in list
In(x, list) == \E k \in 1..Len(list) : list[k] = x

\* DocumentSection.add_child that leaves section.level as it is.
add_child_keeping_level(self, section) ==
    /\ calls < MaxCalls
    /\ calls' = calls + 1
    /\ LET parented == [sections EXCEPT ![section].parent = self]
       IN  sections' = [parented EXCEPT ![self].children = Append(@, section)]
    /\ UNCHANGED task
    /\ UNCHANGED <<OutlinerVars, AppVars>>

\* DocumentSection.add_child: self.add_child(section), statement by
\* statement (self and section can be the same object).
add_child(self, section) ==
    /\ calls < MaxCalls
    /\ calls' = calls + 1
    /\ LET parented == [sections EXCEPT ![section].parent = self]
           levelled == [parented EXCEPT ![section].level = parented[self].level + 1]
       IN  sections' = [levelled EXCEPT ![self].children = Append(@, section)]
    /\ UNCHANGED task
    /\ UNCHANGED <<OutlinerVars, AppVars>>

\* DocumentSection.remove_child: self.remove_child(section).
remove_child(self, section) ==
    /\ calls < MaxCalls
    /\ calls' = calls + 1
    /\ IF In(section, sections[self].children)
       THEN LET orphaned == [sections EXCEPT ![section].parent = NoId]
            IN  sections' = [orphaned EXCEPT
                               ![self].children = ListRemove(@, section)]
       ELSE UNCHANGED sections
    /\ UNCHANGED task
    /\ UNCHANGED <<OutlinerVars, AppVars>>

section_add_child == \E self \in Sections, section \in Sections :
                        add_child(self, section)

section_remove_child == \E self \in Sections, section \in Sections :
                           remove_child(self, section)

InitDoc == OutlinerIdle /\ ModelsInit /\ AppIdle

NextDoc == section_add_child \/ section_remove_child

SpecDoc == InitDoc /\ [][NextDoc]_vars

\* The tags the callers pass.
Tags == {"w", "x", "y", "z"}

\* Task.add_tag without the test `tag not in self.tags`.
add_tag_unchecked(tag) ==
    /\ calls < MaxCalls
    /\ calls' = calls + 1
    /\ task' = [task EXCEPT !.tags = Append(@, tag),
                            !.modified_at = @ + 1]
    /\ UNCHANGED sections
    /\ UNCHANGED <<OutlinerVars, AppVars>>

\* Task.add_tag
add_tag(tag) ==
    /\ calls < MaxCalls
    /\ calls' = calls + 1
    /\ IF ~In(tag, task.tags)
       THEN task' = [task EXCEPT !.tags = Append(@, tag),
                                 !.modified_at = @ + 1]
       ELSE UNCHANGED task
    /\ UNCHANGED sections
    /\ UNCHANGED <<OutlinerVars, AppVars>>

\* Task.remove_tag
remove_tag(tag) ==
    /\ calls < MaxCalls
    /\ calls' = calls + 1
    /\ IF In(tag, task.tags)
       THEN task' = [task EXCEPT !.tags = ListRemove(@, tag),
                                 !.modified_at = @ + 1]
       ELSE UNCHANGED task
    /\ UNCHANGED sections
    /\ UNCHANGED <<OutlinerVars, AppVars>>

task_add_tag == \E tag \in Tags : add_tag(tag)

task_remove_tag == \E tag \in Tags : remove_tag(tag)

\* Task.mark_completed
mark_completed ==
    /\ calls < MaxCalls
    /\ calls' = calls + 1
    /\ task' = [task EXCEPT !.status = "done",
                            !.completed_at = task.modified_at + 1,
                            !.modified_at = @ + 1]
    /\ UNCHANGED sections
    /\ UNCHANGED <<OutlinerVars, AppVars>>

\* Task.mark_in_progress
mark_in_progress ==
    /\ calls < MaxCalls
    /\ calls' = calls + 1
    /\ task' = [task EXCEPT !.status = "in_progress",
                            !.modified_at = @ + 1]
    /\ UNCHANGED sections
    /\ UNCHANGED <<OutlinerVars, AppVars>>

InitTask == OutlinerIdle /\ ModelsInit /\ AppIdle

NextTask ==
    \/ task_add_tag
    \/ task_remove_tag
    \/ mark_completed
    \/ mark_in_progress

SpecTask == InitTask /\ [][NextTask]_vars

-----------------------------------------------------------------------------
(* Loading: the outline files a project directory can hold, and the view    *)
(* following the app from project to project.                               *)

\* A project with no outline.json.
FileMissing == [state |-> "missing", payload |-> << >>]

\* An outline.json that json.loads rejects.
FileCorrupt == [state |-> "corrupt", payload |-> << >>]

\* Parseable JSON of the wrong shape: the "children" of a record hold a
\* string where an object is expected.
FileMisshapen ==
    [state |-> "ok",
     payload |-> << [id |-> 1, title |-> "A", kind |-> "beat",
                     children |-> <<NotADict>>] >>]

\* Parseable JSON of the wrong shape at the top: an array of strings, or an
\* object, whose iteration yields its keys.
FileNotObjects == [state |-> "ok", payload |-> <<NotADict>>]

\* The JSON array [].
FileEmpty == [state |-> "ok", payload |-> << >>]

\* Records without an id (absent, or the empty string) and without the
\* milestone fields.
FileNoIds ==
    [state |-> "ok",
     payload |-> << [title |-> "A", kind |-> "beat",
                     children |-> << [title |-> "B", kind |-> "chapter"] >>],
                    [id |-> NoId, title |-> "C", kind |-> "beat"] >>]

\* Records of which two carry the same id.
FileDupIds ==
    [state |-> "ok",
     payload |-> << asdict(OutlineItem(1, "A", "beat", "", "", "", "", << >>)),
                    asdict(OutlineItem(2, "B", "beat", "", "", "", "", << >>)),
                    asdict(OutlineItem(1, "C", "beat", "", "", "", "",
                                       << >>)) >>]

\* Records of which a child carries the id of its parent.
FileDupNested ==
    [state |-> "ok",
     payload |-> << asdict(OutlineItem(1, "A", "beat", "", "", "", "",
                      << OutlineItem(1, "B", "chapter", "", "", "", "",
                                     << >>) >>)),
                    asdict(OutlineItem(2, "C", "beat", "", "", "", "",
                                       << >>)) >>]

\* A file whose milestone holds a number where its plot should be a string.
FileWrongType ==
    [state |-> "ok",
     payload |-> << [id |-> 1, title |-> "A", kind |-> "beat",
                     children |-> << [id |-> 2, title |-> "B",
                                      kind |-> "chapter",
                                      children |-> << [id |-> 3,
                                                       title |-> "M",
                                                       kind |-> "milestone",
                                                       plot |-> JsonNumber]
                                                   >>] >>] >>]

ProjectFiles ==
    InitialFiles \cup {FileMissing, FileCorrupt, FileMisshapen,
                       FileNotObjects, FileEmpty, FileNoIds, FileDupIds,
                       FileDupNested, FileWrongType}

InitLoad ==
    /\ mounted = FALSE
    /\ tree = << >>
    /\ sel = << >>
    /\ gridIndex = << >>
    /\ gridRows = << >>
    /\ gridCursor = 0
    /\ disk \in ProjectFiles
    /\ notice = ""
    /\ pending = NoPrompt
    /\ last = Outcome("init", "done")
    /\ ops = 0
    /\ ModelsInit /\ AppIdle

\* VesperApp._choose_project_worker (and _set_project_worker): the project
\* root moves to another directory, so _outline_path() names that project's
\* outline.json, and the view reloads.
choose_project_worker ==
    /\ mounted
    /\ pending = NoPrompt
    /\ \E f \in ProjectFiles :
          /\ disk' = f
          /\ LoadAndShow("reload", disk')

\* outline.json as an earlier run saved it after Beginning and Middle were
\* deleted from the seeded tree.
FileLastBeat ==
    save_outline(populate_tree(
        << OutlineItem(3, "End", "beat", "", "", "", "", << >>) >>))

\* Deleting down to nothing: the view on a project whose file is absent, as
\* saved in the scenario, or holds one beat, with the delete key, reload and
\* navigation.
InitDelete ==
    /\ mounted = FALSE
    /\ tree = << >>
    /\ sel = << >>
    /\ gridIndex = << >>
    /\ gridRows = << >>
    /\ gridCursor = 0
    /\ disk \in InitialFiles \cup {FileLastBeat}
    /\ notice = ""
    /\ pending = NoPrompt
    /\ last = Outcome("init", "done")
    /\ ops = 0
    /\ ModelsInit /\ AppIdle

NextDelete ==
    \/ on_mount
    \/ reload_outline_from_disk
    \/ action_delete
    \/ on_tree_node_selected
    \/ on_data_table_row_highlighted

SpecDelete == InitDelete /\ [][NextDelete]_vars

NextLoad ==
    \/ on_mount
    \/ reload_outline_from_disk
    \/ choose_project_worker
    \/ on_tree_node_selected
    \/ on_data_table_row_highlighted

SpecLoad == InitLoad /\ [][NextLoad]_vars

-----------------------------------------------------------------------------
(* The editor (src/src/vesper/screens/editor.py) and the app's file        *)
(* commands and autosave (src/src/vesper/app.py).  The TextArea is the      *)
(* toolkit's: the user's edit of its text reaches the view as a             *)
(* TextArea.Changed message; whether an assignment to TextArea.text posts   *)
(* one too is the toolkit's choice, and such a message is handled only      *)
(* after the method that made the assignment has returned.                  *)

\* EditorView.on_text_area_changed at time t.
on_text_area_changed(e, t) == [e EXCEPT !.dirty = TRUE, !.last_edit_ts = t]

\* EditorView.new_file.
new_file(e) ==
    [e EXCEPT !.text = "", !.current_path = NoPath, !.dirty = FALSE]

\* p.read_text raises: there is no file at p.
load_file_raises(fs, p) == fs[p] = NoFile

\* EditorView.load_file, when read_text returned.
load_file(e, fs, p) ==
    [e EXCEPT !.text = fs[p], !.current_path = p, !.dirty = FALSE]

\* p of save_file: the path given, else current_path.
save_path(e, path) == IF path # NoPath THEN path ELSE e.current_path

\* save_file raises FileNotFoundError: no path given and none set.
save_file_raises(e, path) == save_path(e, path) = NoPath

\* EditorView.save_file after p.write_text returned.
save_file(e, path, mark_clean) ==
    [e EXCEPT !.current_path = save_path(e, path),
              !.dirty = IF mark_clean THEN FALSE ELSE @]

\* p.write_text(text) of save_file.
write_text(fs, e, path) == [fs EXCEPT ![save_path(e, path)] = e.text]

\* should_autosave without its idle test.
should_autosave_dirty(e, t, idle_seconds) ==
    /\ e.dirty
    /\ e.last_edit_ts # 0

\* EditorView.should_autosave at time t.
should_autosave(e, t, idle_seconds) ==
    /\ e.dirty
    /\ e.last_edit_ts # 0
    /\ (t - e.last_edit_ts) >= idle_seconds

\* The idle time of _autosave_worker's should_autosave(15.0).
AutosaveIdleSeconds == 15

\* The handlers, timers and workers are served while the app runs
\* (autosave.running).

\* The user edits the text to t; the TextArea posts Changed and the view
\* handles it.
TextArea_edit ==
    /\ autosave.running
    /\ \E t \in Texts \ {editor.text} :
           editor' = on_text_area_changed([editor EXCEPT !.text = t], clock)
    /\ unsaved' = TRUE
    /\ UNCHANGED <<files, posted, clock, autosave, git>>
    /\ UNCHANGED <<OutlinerVars, ModelVars>>

\* The Changed message of an assignment to TextArea.text is handled.
TextArea_Changed ==
    /\ autosave.running
    /\ posted
    /\ posted' = FALSE
    /\ editor' = on_text_area_changed(editor, clock)
    /\ UNCHANGED <<files, unsaved, clock, autosave, git>>
    /\ UNCHANGED <<OutlinerVars, ModelVars>>

\* VesperApp.action_new_file.
action_new_file ==
    /\ autosave.running
    /\ editor' = new_file(editor)
    /\ \E posts \in BOOLEAN : posted' = (posted \/ posts)
    /\ unsaved' = FALSE
    /\ UNCHANGED <<files, clock, autosave, git>>
    /\ UNCHANGED <<OutlinerVars, ModelVars>>

\* VesperApp.action_open_file and _open_file_worker: the picker returns
\* selected (NoPath: dismissed); a load that raises is notified.
open_file_worker ==
    /\ autosave.running
    /\ \E selected \in Paths \cup {NoPath} :
           IF selected = NoPath \/ load_file_raises(files, selected)
           THEN UNCHANGED <<editor, posted, unsaved>>
           ELSE /\ editor' = load_file(editor, files, selected)
                /\ \E posts \in BOOLEAN : posted' = (posted \/ posts)
                /\ unsaved' = FALSE
    /\ UNCHANGED <<files, clock, autosave, git>>
    /\ UNCHANGED <<OutlinerVars, ModelVars>>

\* _save_file_as_worker: the prompt returns path (NoPath: cancelled); a
\* write that raises is notified.
save_file_as(path, write_raises_) ==
    IF path = NoPath \/ write_raises_
    THEN UNCHANGED <<editor, files, unsaved>>
    ELSE /\ files' = write_text(files, editor, path)
         /\ editor' = save_file(editor, path, TRUE)
         /\ unsaved' = FALSE

\* VesperApp.action_save_file: save_file(), and Save As when it raises
\* FileNotFoundError.
action_save_file ==
    /\ autosave.running
    /\ \E path \in Paths \cup {NoPath}, write_raises_ \in BOOLEAN :
           IF save_file_raises(editor, NoPath)
           THEN save_file_as(path, write_raises_)
           ELSE save_file_as(editor.current_path, write_raises_)
    /\ UNCHANGED <<posted, clock, autosave, git>>
    /\ UNCHANGED <<OutlinerVars, ModelVars>>

\* VesperApp.action_save_file_as.
action_save_file_as ==
    /\ autosave.running
    /\ \E path \in Paths \cup {NoPath}, write_raises_ \in BOOLEAN :
           save_file_as(path, write_raises_)
    /\ UNCHANGED <<posted, clock, autosave, git>>
    /\ UNCHANGED <<OutlinerVars, ModelVars>>

\* Time passes.
time_passes ==
    /\ clock + TimeStep <= MaxTime
    /\ clock' = clock + TimeStep
    /\ UNCHANGED <<editor, files, posted, unsaved, autosave, git>>
    /\ UNCHANGED <<OutlinerVars, ModelVars>>

\* VesperApp._autosave_tick, the callback of the 15 s interval timer:
\* returns when an autosave is in flight, else sets the flag and starts
\* the worker.
autosave_tick ==
    /\ autosave.running
    /\ IF autosave.inflight
       THEN UNCHANGED autosave
       ELSE autosave' = [autosave EXCEPT !.inflight = TRUE, !.workers = @ + 1]
    /\ UNCHANGED <<editor, files, posted, unsaved, clock, git>>
    /\ UNCHANGED <<OutlinerVars, ModelVars>>

\* VesperApp._autosave_worker, which runs without awaiting: the editor
\* lookup raises (the exception leaves the worker, and the toolkit ends
\* the app or goes on), or the save raises (notified), or the file is
\* written, or nothing is due; the finally clause clears the flag.
autosave_worker ==
    /\ autosave.running
    /\ autosave.workers > 0
    /\ \E lookup_raises \in BOOLEAN, write_raises_ \in BOOLEAN,
          goes_on \in BOOLEAN :
         LET due == /\ editor.current_path # NoPath
                    /\ should_autosave(editor, clock, AutosaveIdleSeconds)
             writes == ~lookup_raises /\ due /\ ~write_raises_
         IN  /\ autosave' = [running  |-> ~lookup_raises \/ goes_on,
                             inflight |-> FALSE,
                             workers  |-> autosave.workers - 1,
                             wrote    |-> writes,
                             raised   |-> lookup_raises
                                            \/ (due /\ write_raises_)]
             /\ IF writes
                THEN /\ files' = write_text(files, editor, NoPath)
                     /\ editor' = save_file(editor, NoPath, TRUE)
                     /\ unsaved' = FALSE
                ELSE UNCHANGED <<editor, files, unsaved>>
    /\ UNCHANGED <<posted, clock, git>>
    /\ UNCHANGED <<OutlinerVars, ModelVars>>

InitEditor == OutlinerIdle /\ ModelsInit /\ AppIdle

NextEditor ==
    \/ TextArea_edit
    \/ TextArea_Changed
    \/ action_new_file
    \/ open_file_worker
    \/ action_save_file
    \/ action_save_file_as
    \/ time_passes
    \/ autosave_tick
    \/ autosave_worker

SpecEditor == InitEditor /\ [][NextEditor]_vars

-----------------------------------------------------------------------------
(* The git service (src/src/vesper/services/git.py): one call of           *)
(* commit_project_changes, git command by git command.  _run never raises   *)
(* on a command that fails (check=False); the exit code of a command is     *)
(* git's, chosen freely here except that `switch -c` of a branch that       *)
(* exists fails and a commit of nothing fails.                              *)

\* _timestamp_branch_name(...) of the call, and _create_branch's alt.
Branch == "vesper-ts"

Alt == "vesper-ts-1"

NoBranch == ""

\* The dict commit_project_changes returns; severity "" when it has none.
Result(message, severity) == [message |-> message, severity |-> severity]

\* The repository when commit_project_changes is called, on branch "work":
\* whether main exists, whether origin is a remote, whether git status
\* lists changes, and which of the two branch names are taken.
Repository(has_main, has_origin, changed, taken) ==
    [pc |-> "called", head |-> "work", has_main |-> has_main,
     has_origin |-> has_origin, changed |-> changed, branches |-> taken,
     created |-> NoBranch, staged |-> FALSE, committed |-> NoBranch,
     pushed |-> FALSE, result |-> Result("", "")]

git_return(res) == [git EXCEPT !.pc = "returned", !.result = res]

GitFrame ==
    /\ UNCHANGED <<editor, files, posted, unsaved, clock, autosave>>
    /\ UNCHANGED <<OutlinerVars, ModelVars>>

\* commit_project_changes up to `if not changed`.
git_status ==
    /\ git.pc = "called"
    /\ git' = IF ~git.changed
              THEN git_return(Result("No changes to commit.", ""))
              ELSE [git EXCEPT !.pc = "ff"]
    /\ GitFrame

\* _ff_update_main and `if not ok_ff`: `git switch main` may fail, its exit
\* code is not read.
ff_update_main ==
    /\ git.pc = "ff"
    /\ \E switched \in BOOLEAN, pull_ok \in BOOLEAN :
         LET on == IF switched THEN "main" ELSE git.head
         IN  git' =
               IF ~git.has_main
               THEN [git EXCEPT !.pc = "branch"]
               ELSE IF git.has_origin /\ ~pull_ok
               THEN [git_return(Result("Could not fast-forward 'main'.",
                                   "warning")) EXCEPT !.head = on]
               ELSE [git EXCEPT !.pc = "branch", !.head = on]
    /\ GitFrame

\* _create_branch, whose failure is not looked at.
create_branch_unchecked ==
    /\ git.pc = "branch"
    /\ \E ok1 \in BOOLEAN, ok2 \in BOOLEAN :
         LET ok  == ok1 /\ Branch \notin git.branches
             ok_ == ok2 /\ Alt \notin git.branches
         IN  git' =
               IF ok
               THEN [git EXCEPT !.pc = "add", !.head = Branch,
                                !.created = Branch,
                                !.branches = @ \cup {Branch}]
               ELSE IF ok_
               THEN [git EXCEPT !.pc = "add", !.head = Alt,
                                !.created = Alt,
                                !.branches = @ \cup {Alt}]
               ELSE [git EXCEPT !.pc = "add"]
    /\ GitFrame

\* _create_branch and `if not ok`: git switch -c name, else git switch -c
\* name-1.
create_branch ==
    /\ git.pc = "branch"
    /\ \E ok1 \in BOOLEAN, ok2 \in BOOLEAN :
         LET ok  == ok1 /\ Branch \notin git.branches
             ok_ == ok2 /\ Alt \notin git.branches
         IN  git' =
               IF ok
               THEN [git EXCEPT !.pc = "add", !.head = Branch,
                                !.created = Branch,
                                !.branches = @ \cup {Branch}]
               ELSE IF ok_
               THEN [git EXCEPT !.pc = "add", !.head = Alt,
                                !.created = Alt,
                                !.branches = @ \cup {Alt}]
               ELSE git_return(Result("Failed to create branch. Aborting commit.",
                                  "error"))
    /\ GitFrame

\* git add -A; its exit code is not read.
git_add ==
    /\ git.pc = "add"
    /\ \E ok \in BOOLEAN :
           git' = [git EXCEPT !.pc = "commit", !.staged = ok]
    /\ GitFrame

\* git commit -m msg and `if proc.returncode != 0`.
git_commit ==
    /\ git.pc = "commit"
    /\ \E ok \in BOOLEAN :
           git' = IF ok /\ git.staged
                  THEN [git EXCEPT !.pc = "push", !.staged = FALSE,
                                   !.committed = git.head]
                  ELSE git_return(Result("Commit failed", "error"))
    /\ GitFrame

\* `if remotes:` to the end: git push -u origin used_branch, then the pull
\* request of the GitHub CLI.
git_push ==
    /\ git.pc = "push"
    /\ \E ok \in BOOLEAN, gh \in BOOLEAN, ok_pr \in BOOLEAN :
           git' =
             IF ~git.has_origin
             THEN git_return(Result("Committed", ""))
             ELSE IF ~ok
             THEN git_return(Result("Committed. Push failed", "warning"))
             ELSE IF ~gh
             THEN [git_return(Result("Committed", "")) EXCEPT !.pushed = TRUE]
             ELSE IF ok_pr
             THEN [git_return(Result("Committed, pushed, PR created", ""))
                     EXCEPT !.pushed = TRUE]
             ELSE [git_return(Result("Committed and pushed. PR creation failed",
                                 "warning")) EXCEPT !.pushed = TRUE]
    /\ GitFrame

InitGit ==
    /\ OutlinerIdle /\ ModelsInit /\ EditorIdle
    /\ \E has_main \in BOOLEAN, has_origin \in BOOLEAN, changed \in BOOLEAN,
          taken \in SUBSET {Branch, Alt} :
           git = Repository(has_main, has_origin, changed, taken)

NextGit ==
    \/ git_status
    \/ ff_update_main
    \/ create_branch
    \/ git_add
    \/ git_commit
    \/ git_push

SpecGit == InitGit /\ [][NextGit]_vars

-----------------------------------------------------------------------------
(* Properties of the outline tree *)

\* The handlers that move a subtree.
MoveOps == {"indent", "outdent", "move_up", "move_down"}

\* The handlers that change the tree or reload it.
MutatingOps ==
    MoveOps \cup {"mount", "reload", "add_sibling", "add_child", "rename",
                  "edit_milestone", "delete"}

\* The ids of the nodes of forest f in document order (depth first, a node
\* before its children, its children before its next sibling).
RECURSIVE DocOrder(_)
DocOrder(f) ==
    IF f = << >> THEN << >>
    ELSE <<Head(f).data.id>> \o DocOrder(Head(f).children)
           \o DocOrder(Tail(f))

\* What a subtree holds apart from kinds and labels: ids, titles, milestone
\* fields and the children in order.
RECURSIVE Content(_)
Content(node) ==
    [id |-> node.data.id, title |-> node.data.title, plot |-> node.data.plot,
     subplot |-> node.data.subplot, character |-> node.data.character,
     theme |-> node.data.theme, children |-> Map(Content, node.children)]

\* The titles of a forest, nested as the forest is.
RECURSIVE Titles(_)
Titles(f) ==
    LET One(node) == <<node.data.title, Titles(node.children)>>
    IN  Map(One, f)

KindAt(f, p) == NodeAt(f, p).data.kind

\* C1: in every state reached from the seeded tree, every node's kind is the
\* kind of its depth (beat at 1, chapter at 2, milestone at 3).
C1_KindMatchesDepth ==
    \A p \in PathsOf(tree) : KindAt(tree, p) = kind_for_level(Len(p))

\* C2: in every state reached from the seeded tree, no node lies deeper than
\* depth 3.
C2_MaxDepthThree == \A p \in PathsOf(tree) : Len(p) <= 3

\* C3: indent, outdent, move up and move down on a selected node leave a node
\* with the subject's id in the tree, whose subtree has the ids, titles,
\* milestone fields and children order the subject's subtree had.
C3_IdentityPreserved ==
    [][ (last'.op \in MoveOps /\ sel # << >>)
          => \E q \in PathsOf(tree') :
                Content(NodeAt(tree', q)) = Content(NodeAt(tree, sel)) ]_vars

\* C3 witness: a move has relocated a node that has children.
C3_Witness ==
    /\ last.op \in MoveOps
    /\ last.outcome = "done"
    /\ sel # << >>
    /\ NodeAt(tree, sel).children # << >>

\* C4: no two nodes of the tree share an id.
C4_UniqueIds == Cardinality(IdsOf(tree)) = TreeSize(tree)

\* C4 witness: a node was added and then moved under another parent.
C4_Witness ==
    /\ last = Outcome("indent", "done")
    /\ ops = 2
    /\ sel # << >>
    /\ NodeAt(tree, sel).data.id \notin 1..5

\* C5: hydrating what _save_outline writes for the tree gives the tree back:
\* same ids, titles, kinds, children order and milestone fields.
C5_RoundTrip ==
    /\ load_outline(save_outline(tree)).found
    /\ populate_tree(load_outline(save_outline(tree)).items) = tree

\* C5 witness: the tree was saved after a milestone nested under a chapter
\* was given a plot of two lines.
C5_Witness ==
    /\ last = Outcome("edit_milestone", "done")
    /\ disk = save_outline(tree)
    /\ \E p \in PathsOf(tree) :
          /\ Len(p) = 3
          /\ NodeAt(tree, p).data.plot = "two\nlines"
          /\ KindAt(tree, p) = "milestone"

\* C6: add child on a node at depth 3 or deeper, and indent of a node at
\* depth 3 or deeper that has a previous sibling, change nothing (tree, file,
\* grid, no prompt) and raise the max-depth notice.
C6_MaxDepthRejected ==
    [][ ( /\ pending = NoPrompt
          /\ sel # << >>
          /\ Len(sel) + 1 > 3
          /\ \/ last'.op = "add_child"
             \/ last'.op = "indent" /\ previous_sibling(sel) # << >> )
          => /\ notice' = "Max depth is 3"
             /\ pending' = NoPrompt
             /\ UNCHANGED <<tree, disk, gridIndex, gridRows, sel>> ]_vars

\* C6 witness: an indent was rejected at the depth limit.
C6_Witness ==
    /\ last = Outcome("indent", "rejected")
    /\ notice = "Max depth is 3"
    /\ Len(sel) = 3

\* C7: move up on the first top-level beat, and move down on the last child
\* of the last top-level beat, leave the tree unchanged.
C7_MoveBoundaries ==
    [][ ( \/ last'.op = "move_up" /\ sel = <<1>>
          \/ /\ last'.op = "move_down"
             /\ Len(sel) = 2
             /\ sel[1] = Len(tree)
             /\ sel[2] = Len(tree[Len(tree)].children) )
          => UNCHANGED <<tree, disk, gridIndex, gridRows>> ]_vars

\* C7 witness: move down was pressed on the last child of the last beat.
C7_Witness ==
    /\ last = Outcome("move_down", "noop")
    /\ Len(sel) = 2
    /\ sel[1] = Len(tree)
    /\ sel[2] = Len(tree[Len(tree)].children)

\* The tree of the scenario before Ch1 is outdented:
\* [Beginning[Ch1[M1]], Middle, End], M1 with plot "p".
ScenarioBeforeOutdent ==
    /\ Titles(tree) =
         << <<"Beginning", << <<"Ch1", << <<"M1", << >> >> >> >> >> >>,
            <<"Middle", << >> >>, <<"End", << >> >> >>
    /\ NodeAt(tree, <<1, 1, 1>>).data.plot = "p"
    /\ sel = <<1, 1>>

\* C8: outdenting Ch1 in the scenario gives [Beginning, Ch1[M1], Middle, End]
\* with Ch1 a beat and M1 a chapter.
C8_OutdentScenario ==
    [][ (ScenarioBeforeOutdent /\ last'.op = "outdent")
          => /\ Titles(tree') =
                  << <<"Beginning", << >> >>,
                     <<"Ch1", << <<"M1", << >> >> >> >>,
                     <<"Middle", << >> >>, <<"End", << >> >> >>
             /\ KindAt(tree', <<2>>) = "beat"
             /\ KindAt(tree', <<2, 1>>) = "chapter" ]_vars

\* C9: the row of every node at depth 1 or 2 has four blank cells.
C9_RowsBlankAboveMilestones ==
    (mounted /\ Len(gridRows) = TreeSize(tree))
      => \A k \in 1..Len(gridRows) :
            Len(PreorderPaths(tree)[k]) <= 2 => gridRows[k] = <<"", "", "", "">>

\* C10: after every mutating operation that completes, the grid index is the
\* ids of all nodes of the tree in document order, one row per node.
C10_GridIndexIsDocOrder ==
    (last.op \in MutatingOps /\ last.outcome = "done")
      => /\ gridIndex = DocOrder(tree)
         /\ Len(gridRows) = Len(gridIndex)

\* C10 witness: a subtree was outdented in a tree that holds nested nodes.
C10_Witness ==
    /\ last = Outcome("outdent", "done")
    /\ \E p \in PathsOf(tree) : Len(p) >= 2
    /\ gridIndex # << >>

-----------------------------------------------------------------------------
(* Properties of selection sync and of loading *)

\* The grid row (0-based) of the node at path p of forest f.
RowOf(f, p) ==
    LET pp == PreorderPaths(f)
    IN  (CHOOSE k \in 1..Len(pp) : pp[k] = p) - 1

\* C11: selecting a tree node highlights the row of that node, highlighting
\* a row selects the node of that row, and re-applying either to the
\* counterpart already selected changes neither rows, tree nor selection,
\* for every tree, also one loaded from a file in which two nodes carry the
\* same id.
C11_SelectionSync ==
    [][ /\ on_tree_node_selected
            => /\ gridCursor' = RowOf(tree, sel')
               /\ (sel' = sel /\ gridCursor = RowOf(tree, sel))
                     => UNCHANGED <<tree, gridRows, gridIndex, gridCursor>>
        /\ on_data_table_row_highlighted
            => /\ sel' # << >>
               /\ RowOf(tree, sel') = gridCursor'
               /\ (gridCursor' = gridCursor /\ sel # << >>
                      /\ gridCursor = RowOf(tree, sel))
                     => UNCHANGED <<tree, gridRows, gridIndex, sel>> ]_vars

\* C12: after loading any parseable outline document every node of the tree
\* has a non-empty id and no two nodes share an id, also when the file's
\* records lack an id or several records carry the same id.
C12_LoadedIdsUnique ==
    mounted => /\ NoId \notin IdsOf(tree)
               /\ Cardinality(IdsOf(tree)) = TreeSize(tree)

\* C12, the part that holds: a record without an id gets a fresh one.
C12_MissingIdsRegenerated ==
    mounted => NoId \notin IdsOf(tree)

\* The three seeded beats: Beginning, Middle, End, each of kind beat and
\* without children.
SeededBeats(f) ==
    /\ Len(f) = 3
    /\ \A k \in 1..3 :
          /\ f[k].data.title = <<"Beginning", "Middle", "End">>[k]
          /\ f[k].data.kind = "beat"
          /\ f[k].children = << >>

\* The persisted format: an array of objects whose text fields are strings
\* and whose children are again such objects.
RECURSIVE WellShapedObject(_)
WellShapedObject(obj) ==
    /\ "notadict" \notin DOMAIN obj
    /\ \A key \in {"title", "kind", "plot", "subplot", "character", "theme"} :
          Get(obj, key, "") # JsonNumber
    /\ LET ch == Get(obj, "children", << >>)
       IN  \A k \in 1..Len(ch) : WellShapedObject(ch[k])

WellShapedFile(d) ==
    /\ d.state = "ok"
    /\ \A k \in 1..Len(d.payload) : WellShapedObject(d.payload[k])

\* C13: on mount and on reload a missing file and an unparseable or wrongly
\* shaped file are treated alike: the tree becomes the three seeded beats
\* Beginning, Middle, End and no error leaves the handler.
C13_BadFileReseeds ==
    [][ ((on_mount \/ reload_outline_from_disk \/ choose_project_worker)
            /\ ~WellShapedFile(disk'))
          => /\ SeededBeats(tree')
             /\ last'.outcome = "done" ]_vars

\* C13, the part that holds: a missing file, a file json.loads rejects and
\* a file on whose records _hydrate raises all give the seeded beats.
C13_UnloadableFileReseeds ==
    [][ ((on_mount \/ reload_outline_from_disk \/ choose_project_worker)
            /\ ~load_outline(disk').found)
          => /\ SeededBeats(tree')
             /\ last'.outcome = "done" ]_vars

\* C14: while the prompt of add sibling, add child, rename or edit milestone
\* is open the tree is not changed, and when the prompt is cancelled (or, for
\* add and rename, gives an empty text) the tree with every title and the
\* saved file are as they were before the operation.
C14_PromptFrame ==
    [][ (\/ pending' # NoPrompt
         \/ pending # NoPrompt /\ last'.outcome = "cancelled")
          => UNCHANGED <<tree, disk>> ]_vars

\* C14 witness: an add was cancelled when nothing had been saved yet.
C14_Witness ==
    /\ last = Outcome("add_child", "cancelled")
    /\ disk.state = "missing"
    /\ pending = NoPrompt

\* The last index of the children list a path lies in.
LastIndexAt(f, p) == Len(ChildrenAt(f, ParentPath(p)))

\* C15: every outline operation is all-or-nothing.  With a failed
\* precondition (no selection; indent without a previous sibling; outdent of
\* a top-level node; move up or down with neither a sibling nor a
\* neighbouring parent on that side) nothing changes, and an operation that
\* changes the tree leaves every node attached, in the tree and in the file
\* it saved.
C15_AllOrNothing ==
    [][ LET Same == UNCHANGED <<tree, sel, gridIndex, gridRows, gridCursor,
                                disk>>
            First(p) == p[Len(p)] = 1
            Final(p) == p[Len(p)] = LastIndexAt(tree, p)
        IN  /\ (action_delete /\ sel = << >>) => Same
            /\ (action_indent /\ (sel = << >> \/ First(sel))) => Same
            /\ (action_outdent /\ Len(sel) <= 1) => Same
            /\ (action_move_up
                  /\ (\/ sel = << >>
                      \/ First(sel) /\ (Len(sel) = 1 \/ First(ParentPath(sel)))))
                 => Same
            /\ (action_move_down
                  /\ (\/ sel = << >>
                      \/ Final(sel) /\ (Len(sel) = 1 \/ Final(ParentPath(sel)))))
                 => Same
            /\ ((action_indent \/ action_outdent \/ action_move_up
                    \/ action_move_down) /\ tree' # tree)
                 => /\ IdsOf(tree') = IdsOf(tree)
                    /\ TreeSize(tree') = TreeSize(tree)
                    /\ disk'.state = "ok"
                    /\ ObjIds(disk'.payload) = IdsOf(tree')
                    /\ ObjSize([id |-> NoId, children |-> disk'.payload])
                          = TreeSize(tree') + 1 ]_vars

\* C15 witness: outdent was pressed on a top-level node after the tree had
\* been changed once.
C15_Witness ==
    /\ last = Outcome("outdent", "noop")
    /\ Len(sel) = 1
    /\ ops = 1

\* The handlers that change the tree and then call _save_outline.
SavingHandler ==
    \/ action_delete
    \/ action_indent
    \/ action_outdent
    \/ action_move_up
    \/ action_move_down
    \/ add_worker_resume
    \/ rename_worker_resume
    \/ edit_milestone_worker_resume

\* C16: when the file write of _save_outline fails during a mutating
\* operation, the tree in memory holds the mutation, the failure is reported
\* to the user as a non-fatal error, the session keeps running, and the grid
\* and the selection are still brought in line with the mutated tree.
C16_SaveFailureHandled ==
    [][ (SavingHandler /\ tree' # tree /\ write_raises(disk))
          => /\ notice' # ""
             /\ mounted'
             /\ gridIndex' = DocOrder(tree')
             /\ sel' # << >> => gridCursor' = RowOf(tree', sel') ]_vars

\* C16, the part that holds: the tree in memory holds the mutation (a
\* deleted subtree is gone, an added item is there) and the file is as it
\* was.
C16_MutationKeptInMemory ==
    [][ (SavingHandler /\ last'.outcome = "raised")
          => /\ action_delete => TreeSize(tree') < TreeSize(tree)
             /\ add_worker_resume => TreeSize(tree') = TreeSize(tree) + 1
             /\ disk' = disk ]_vars

\* C17: after an indent, outdent, move up or move down that changes the
\* tree, the selected node is the node that carries the subject's id, for
\* every tree reached from the seeded tree.
C17_SubjectStaysSelected ==
    [][ ((action_indent \/ action_outdent \/ action_move_up
            \/ action_move_down) /\ tree' # tree)
          => /\ sel' # << >>
             /\ NodeAt(tree', sel').data.id = NodeAt(tree, sel).data.id ]_vars

\* C17 witness: a chapter or milestone was moved down and is selected.
C17_Witness ==
    /\ last = Outcome("move_down", "done")
    /\ Len(sel) >= 2
    /\ ops = 2

-----------------------------------------------------------------------------
(* Properties of the models *)

\* C18: after p.add_child(c), c.parent is p, c.level is p.level + 1 (p.level
\* as it is when add_child is called, which for c other than p is also
\* p.level afterwards) and c is the last of p.children, for every level of
\* the parent.
C18_AddChild ==
    [][ \A p \in Sections, c \in Sections :
          add_child(p, c)
            => /\ sections'[c].parent = p
               /\ sections'[c].level = sections[p].level + 1
               /\ c # p => sections'[c].level = sections'[p].level + 1
               /\ sections'[p].children # << >>
               /\ sections'[p].children[Len(sections'[p].children)] = c
       ]_vars

\* C18 witness: a section was added to a parent of level 2.
C18_Witness ==
    \E p \in Sections, c \in Sections :
       /\ c # p
       /\ sections[p].level = 2
       /\ sections[c].parent = p
       /\ sections[c].level = 3
       /\ sections[p].children = <<c>>

\* C19: after any sequence of add_child calls on p, also one that added the
\* same section more than once, p.remove_child(c) leaves c absent from
\* p.children and c.parent None; when c is not a child of p nothing
\* changes.
C19_RemoveChild ==
    [][ \A p \in Sections, c \in Sections :
          remove_child(p, c)
            => IF In(c, sections[p].children)
               THEN /\ ~In(c, sections'[p].children)
                    /\ sections'[c].parent = NoId
               ELSE UNCHANGED sections ]_vars

\* C19, the part that holds: one occurrence of c leaves p.children, c.parent
\* becomes None, and nothing changes when c is not a child of p.
C19_RemoveChildOnce ==
    [][ \A p \in Sections, c \in Sections :
          remove_child(p, c)
            => IF In(c, sections[p].children)
               THEN /\ Len(sections'[p].children)
                         = Len(sections[p].children) - 1
                    /\ sections'[c].parent = NoId
                    /\ Cardinality({k \in DOMAIN sections[p].children :
                                       sections[p].children[k] = c}) = 1
                          => ~In(c, sections'[p].children)
               ELSE UNCHANGED sections ]_vars

\* No tag occurs twice in a list of tags.
NoDuplicates(list) ==
    \A j \in 1..Len(list), k \in 1..Len(list) : list[j] = list[k] => j = k

\* C20: on a task that starts with no tags, after any sequence of add_tag
\* and remove_tag the list of tags has no duplicate and keeps the order of
\* first insertion (a new tag goes to the end, the others keep their
\* places); adding a tag that is present changes nothing; remove_tag(t)
\* leaves t absent.
C20_Tags ==
    [][ /\ NoDuplicates(task'.tags)
        /\ \A t \in Tags :
              add_tag(t) => IF In(t, task.tags)
                            THEN UNCHANGED task
                            ELSE task'.tags = Append(task.tags, t)
        /\ \A t \in Tags :
              remove_tag(t)
                => LET Other(x) == x # t
                   IN  /\ ~In(t, task'.tags)
                       /\ task'.tags = SelectSeq(task.tags, Other) ]_vars

\* C20 witness: two tags are on the task and one of three calls changed
\* nothing.
C20_Witness ==
    /\ Len(task.tags) = 2
    /\ task.modified_at = 2
    /\ calls = 3

-----------------------------------------------------------------------------
(* Properties of the structural operations, node by node *)

\* The path of the node of forest f that carries id.
PathOfId(f, id) == CHOOSE p \in PathsOf(f) : NodeAt(f, p).data.id = id

\* The ids of forest f in document order, without those of the set sub.
OthersInOrder(f, sub) ==
    LET Other(id) == id \notin sub
    IN  SelectSeq(DocOrder(f), Other)

\* The subject of a key handler: the selected node, and the ids it holds
\* with its descendants.
SubjectIds == IdsOf(<<NodeAt(tree, sel)>>)

\* A handler named op ran to its end and saved.
Did(op) == last'.op = op /\ last'.outcome = "done" /\ ops' = ops + 1

\* The subject is at path p of the new tree with all it held, and the other
\* nodes are in the order they were in.
SubjectNowAt(p) ==
    /\ p \in PathsOf(tree')
    /\ Content(NodeAt(tree', p)) = Content(NodeAt(tree, sel))
    /\ OthersInOrder(tree', SubjectIds) = OthersInOrder(tree, SubjectIds)
    /\ TreeSize(tree') = TreeSize(tree)

\* C22: move up swaps the node with its previous sibling when it has one;
\* when it is the first child and its parent has a previous sibling it
\* becomes the last child of that sibling.  Move down mirrors this: swap
\* with the next sibling, or first child of the parent's next sibling.  The
\* node keeps its depth and all other nodes keep their relative order.
C22_MoveUpDown ==
    [][ /\ Did("move_up")
           => LET par == ParentPath(sel)
                  i == IndexOf(sel)
              IN  IF i > 1
                  THEN /\ SubjectNowAt(par \o <<i - 1>>)
                       /\ NodeAt(tree', sel).data.id
                            = NodeAt(tree, par \o <<i - 1>>).data.id
                  ELSE LET uncle == ParentPath(par) \o <<IndexOf(par) - 1>>
                       IN  /\ Len(sel) >= 2
                           /\ IndexOf(par) > 1
                           /\ SubjectNowAt(
                                  uncle \o <<Len(ChildrenAt(tree, uncle)) + 1>>)
                           /\ Len(ChildrenAt(tree', uncle))
                                = Len(ChildrenAt(tree, uncle)) + 1
        /\ Did("move_down")
           => LET par == ParentPath(sel)
                  i == IndexOf(sel)
              IN  IF i < Len(ChildrenAt(tree, par))
                  THEN /\ SubjectNowAt(par \o <<i + 1>>)
                       /\ NodeAt(tree', sel).data.id
                            = NodeAt(tree, par \o <<i + 1>>).data.id
                  ELSE LET aunt == ParentPath(par) \o <<IndexOf(par) + 1>>
                       IN  /\ Len(sel) >= 2
                           /\ IndexOf(par) < Len(ChildrenAt(tree,
                                                            ParentPath(par)))
                           /\ SubjectNowAt(aunt \o <<1>>)
                           /\ Len(ChildrenAt(tree', aunt))
                                = Len(ChildrenAt(tree, aunt)) + 1 ]_vars

\* C22 witness: a chapter was moved down out of its beat and is the first
\* of the two chapters of the next beat.
C22_Witness ==
    /\ last = Outcome("move_down", "done")
    /\ Len(sel) = 2
    /\ IndexOf(sel) = 1
    /\ Len(ChildrenAt(tree, ParentPath(sel))) = 2

\* C23: indent of a node that has a previous sibling P and passes the depth
\* check takes the node from its parent and makes it, with its whole
\* subtree, the last child of P; the children P had keep their order and
\* every other node is unchanged.  Without a previous sibling indent changes
\* nothing.
C23_Indent ==
    [][ /\ Did("indent")
           => LET P == ParentPath(sel) \o <<IndexOf(sel) - 1>>
                  olds == ChildrenAt(tree, P)
                  now == P \o <<Len(olds) + 1>>
              IN  /\ IndexOf(sel) > 1
                  /\ SubjectNowAt(now)
                  /\ ChildrenAt(tree', P)
                       = olds \o <<NodeAt(tree', now)>>
                  /\ RemoveNode(tree', now) = RemoveNode(tree, sel)
        /\ (last'.op = "indent" /\ sel # << >> /\ IndexOf(sel) = 1)
           => UNCHANGED <<tree, sel, gridIndex, gridRows, gridCursor, disk>>
      ]_vars

\* C23 witness: the third of three siblings was indented under the second,
\* which had no children.
C23_Witness ==
    /\ last = Outcome("indent", "done")
    /\ sel = <<2, 1>>
    /\ Len(tree) = 2
    /\ ops = 1

\* The id of the parent of the node carrying id in forest f; NoId for a
\* top-level node, whose parent is the root.
ParentIdOf(f, id) ==
    LET p == PathOfId(f, id)
    IN  IF Len(p) = 1 THEN NoId ELSE NodeAt(f, ParentPath(p)).data.id

\* C24: delete on any selected item, a top-level beat included, removes
\* that node and all its descendants and nothing else; every other node,
\* its fields and the relative order of the remaining nodes are unchanged,
\* and the saved file and the grid hold no removed id.
C24_Delete ==
    [][ Did("delete")
          => /\ sel # << >>
             /\ IdsOf(tree') = IdsOf(tree) \ SubjectIds
             /\ DocOrder(tree') = OthersInOrder(tree, SubjectIds)
             /\ \A id \in IdsOf(tree') :
                   /\ NodeAt(tree', PathOfId(tree', id)).data
                        = NodeAt(tree, PathOfId(tree, id)).data
                   /\ ParentIdOf(tree', id) = ParentIdOf(tree, id)
             /\ ObjIds(disk'.payload) = IdsOf(tree')
             /\ {gridIndex'[k] : k \in DOMAIN gridIndex'} = IdsOf(tree')
      ]_vars

\* C24 witness: a top-level beat was deleted and two beats are left.
C24_Witness ==
    /\ last = Outcome("delete", "done")
    /\ Len(tree) = 2
    /\ TreeSize(tree) = 2
    /\ ops = 1

\* C27: move up and move down are inverse.  For every tree and node,
\* whenever move up changes the tree, move down on the same node gives back
\* the tree there was (same parents, same order of children), and likewise
\* move down followed by move up.
C27_MoveInverse ==
    mounted =>
      \A p \in PathsOf(tree) :
         LET id == NodeAt(tree, p).data.id
             up == move_up_tree(tree, p)
             down == move_down_tree(tree, p)
         IN  /\ up # tree => move_down_tree(up, PathOfId(up, id)) = tree
             /\ down # tree => move_up_tree(down, PathOfId(down, id)) = tree

\* C27 witness: two moves were made, the second a move down, and the tree
\* is again the one the file held at the start.
C27_Witness ==
    /\ last = Outcome("move_down", "done")
    /\ ops = 2
    /\ tree # << >>
    /\ save_outline(tree) \in InitialFiles

\* C28: save then reload is the identity on every tree the outline
\* operations reach, the tree with no items left after every beat was
\* deleted included: reload_outline_from_disk after _save_outline succeeded
\* shows a tree equal to the one saved.
C28_SaveReloadIdentity ==
    [][ (reload_outline_from_disk /\ disk = save_outline(tree))
          => tree' = tree ]_vars

\* C28, the part that holds: a tree with at least one item is shown again
\* as it was saved.
C28_SaveReloadNonEmpty ==
    [][ (reload_outline_from_disk /\ disk = save_outline(tree)
           /\ tree # << >>)
          => tree' = tree ]_vars

\* C25: after any sequence of add_child and remove_child calls, for every
\* section s and every c in s.children, c.parent is s and c.level is
\* s.level + 1, and no section is in the children of two sections or twice
\* in one list.
C25_SectionTreeConsistent ==
    /\ \A s \in Sections :
          \A k \in DOMAIN sections[s].children :
             LET c == sections[s].children[k]
             IN  /\ sections[c].parent = s
                 /\ sections[c].level = sections[s].level + 1
    /\ \A s \in Sections : NoDuplicates(sections[s].children)
    /\ \A s \in Sections, t \in Sections :
          s # t => ~\E c \in Sections : /\ In(c, sections[s].children)
                                        /\ In(c, sections[t].children)

\* C26: after any sequence of mark_completed and mark_in_progress on a
\* task, completed_at is set if and only if the status is DONE.
C26_CompletedIffDone ==
    (task.completed_at # NoTime) <=> (task.status = "done")

\* C26, the part that holds: a task whose status is DONE has completed_at
\* set.
C26_DoneHasCompletedAt ==
    task.status = "done" => task.completed_at # NoTime

-----------------------------------------------------------------------------
(* Properties of the editor, of autosave and of the git service *)

\* C21: new_file ends with empty text, no current_path and dirty False;
\* load_file and a clean save_file end with dirty False and current_path the
\* file; a text change sets dirty True; so at all times dirty is False
\* exactly when the text was not changed since the last new, load or clean
\* save.
C21_DirtyIffChanged ==
    editor.dirty <=> unsaved

\* C21, the part that holds: what new_file, load_file, save_file and a text
\* change leave behind when they return.
C21_MethodsEnd ==
    [][ /\ action_new_file
          => /\ editor'.text = ""
             /\ editor'.current_path = NoPath
             /\ ~editor'.dirty
        /\ (open_file_worker /\ editor' # editor)
          => /\ ~editor'.dirty
             /\ editor'.current_path \in Paths
             /\ editor'.text = files[editor'.current_path]
        /\ ((action_save_file \/ action_save_file_as) /\ files' # files)
          => /\ ~editor'.dirty
             /\ editor'.current_path \in Paths
             /\ files'[editor'.current_path] = editor.text
        /\ TextArea_edit => editor'.dirty ]_vars

\* C21, the part that holds: a buffer that is not dirty was not edited since
\* the last new, load or clean save.
C21_CleanMeansUnchanged ==
    ~editor.dirty => ~unsaved

\* C29: at most one autosave worker is in flight, and one is in flight
\* exactly while _autosave_inflight is set; a timer tick that finds the flag
\* set starts no worker; when the worker ends the flag is clear, also when
\* the editor lookup or the save raised, and a tick that finds it clear
\* starts a worker; the worker writes the file only when the buffer is
\* dirty, has a path and was last edited at least 15 seconds ago, and it
\* writes the buffer's text to that path.
C29_AutosaveGuard ==
    [][ /\ autosave'.workers <= 1
        /\ autosave'.inflight <=> (autosave'.workers = 1)
        /\ (autosave_tick /\ autosave.inflight)
              => autosave'.workers = autosave.workers
        /\ (autosave_tick /\ ~autosave.inflight)
              => autosave'.workers = 1
        /\ autosave_worker
              => /\ ~autosave'.inflight
                 /\ autosave'.workers = 0
        /\ (autosave_worker /\ files' # files) => autosave'.wrote
        /\ (autosave_worker /\ autosave'.wrote)
              => /\ editor.dirty
                 /\ editor.current_path # NoPath
                 /\ editor.last_edit_ts # 0
                 /\ clock - editor.last_edit_ts >= AutosaveIdleSeconds
                 /\ files' = [files EXCEPT ![editor.current_path] = editor.text]
      ]_vars

\* An autosave worker wrote the buffer to its file and ended.
C29_Witness ==
    /\ autosave.wrote
    /\ ~autosave.inflight
    /\ autosave.workers = 0
    /\ ~editor.dirty
    /\ files[editor.current_path] = editor.text

\* A tick started a worker after the worker before it had raised.
C29_AgainAfterRaise ==
    /\ autosave.raised
    /\ autosave.inflight
    /\ autosave.workers = 1

\* C30: in a call of commit_project_changes, git add and git commit run,
\* and anything is staged or committed, only after a new branch (the
\* timestamped name or its "-1" fallback) was created and switched to; a
\* call that returns because nothing changed, because main could not be
\* fast-forwarded or because no branch could be created has staged and
\* committed nothing; a call whose push failed returns a warning and the
\* commit stays on the new branch.
C30_CommitOrdering ==
    [][ /\ (git_add \/ git_commit \/ git'.staged # git.staged
                \/ git'.committed # git.committed)
              => /\ git.created \in {Branch, Alt}
                 /\ git.head = git.created
                 /\ git.created \in git.branches
        /\ (git'.pc = "returned"
               /\ git'.result.message \in
                     { "No changes to commit.",
                       "Could not fast-forward 'main'.",
                       "Failed to create branch. Aborting commit." })
              => /\ ~git'.staged
                 /\ git'.committed = NoBranch
                 /\ git'.created = NoBranch
        /\ (git'.pc = "returned"
               /\ git'.result.message = "Committed. Push failed")
              => /\ git'.result.severity = "warning"
                 /\ git'.committed = git'.created
                 /\ git'.committed \in {Branch, Alt}
      ]_vars

\* A call committed on the fallback branch, and its push failed.
C30_Witness ==
    /\ git.pc = "returned"
    /\ git.result = Result("Committed. Push failed", "warning")
    /\ git.committed = Alt
    /\ git.head = Alt

\* A call returned because neither branch name could be created.
C30_NoBranchNoCommit ==
    /\ git.pc = "returned"
    /\ git.result.severity = "error"
    /\ git.created = NoBranch
    /\ git.has_main

====
